---- MODULE Spec2Model ----
(***************************************************************************)
(* Model of homework.py: a bot that polls the homework-status API and      *)
(* forwards review verdicts to a Telegram chat.                            *)
(*                                                                         *)
(* Python values are tagged records ([type |-> "str", val |-> ...]).       *)
(* Texts (log lines, exception messages, chat messages) are sequences of   *)
(* string pieces, concatenated with \o where the code builds an f-string.  *)
(* The Russian literals of the source are given in English.                *)
(***************************************************************************)
EXTENDS Integers, Sequences, FiniteSets, TLC

VARIABLES
    TOKENS,                 \* the three environment values read at import
    clock,                  \* the wall clock, seconds since the epoch
    PAYLOAD,                \* the request parameters, built at import
    pc,                     \* position in main()
    bot,                    \* TRUE once TeleBot(...) was constructed
    previous_status,        \* main(): previous_status
    previous_date_updated,  \* main(): previous_date_updated
    pending,                \* exception in flight while the finally clause runs
    fetches,                \* number of get_api_answer calls made
    sleeps,                 \* number of time.sleep calls made
    token_checks,           \* number of check_tokens calls made
    log,                    \* one record per polling cycle, in order
    arg,                    \* argument of the function under test
    ret                     \* what the function under test returned / raised

vars == <<TOKENS, clock, PAYLOAD, pc, bot, previous_status, previous_date_updated, pending,
          fetches, sleeps, token_checks, log, arg, ret>>

mainVars == <<TOKENS, clock, PAYLOAD, pc, bot, previous_status, previous_date_updated, pending,
              fetches, sleeps, token_checks, log>>

(***************************************************************************)
(* Bounds of the model.                                                    *)
(***************************************************************************)
MaxCycles == 3

(***************************************************************************)
(* Python values.                                                          *)
(***************************************************************************)
None == [type |-> "NoneType"]
PyInt(n) == [type |-> "int", num |-> n]
PyBool(b) == [type |-> "bool", truth |-> b]
PyStr(s) == [type |-> "str", val |-> s]
PyList(s) == [type |-> "list", items |-> s]
PyDict(ks, f) == [type |-> "dict", keys |-> ks, get |-> f]

Range(s) == { s[i] : i \in DOMAIN s }

\* a dict built from a sequence of keys and the values of those keys
DictOf(ks, f) == PyDict(ks, [key \in Range(ks) |-> f[key]])

\* isinstance(value, cls); bool is a subclass of int
isinstance(value, cls) ==
    \/ value.type = cls
    \/ cls = "int" /\ value.type = "bool"

\* key in dict
HasKey(d, key) == key \in Range(d.keys)

\* str(value) as an f-string renders it
fstr(value) ==
    CASE value.type = "str" -> <<value.val>>
      [] value.type = "int" -> <<ToString(value.num)>>
      [] value.type = "bool" -> <<IF value.truth THEN "True" ELSE "False">>
      [] value.type = "NoneType" -> <<"None">>
      [] OTHER -> <<"<", value.type, ">">>

(***************************************************************************)
(* Exceptions: a class name and the message text.                          *)
(***************************************************************************)
NoExc == [type |-> "None", text |-> <<>>]
Exc(cls, text) == [type |-> cls, text |-> text]

\* str(error): KeyError renders the repr of its argument, the others the text
str(error) ==
    IF error.type = "KeyError"
    THEN <<"'">> \o error.text \o <<"'">>
    ELSE error.text

(***************************************************************************)
(* Module constants.                                                       *)
(***************************************************************************)
RETRY_PERIOD == 600
DAYS == 30
HTTP_OK == 200
TOKEN_NAMES == <<"PRACTICUM_TOKEN", "TELEGRAM_TOKEN", "TELEGRAM_CHAT_ID">>
\* RESPONSE_KEYS with the two keys listed in the other order
RESPONSE_KEYS_Swapped == <<"homeworks", "current_date">>
RESPONSE_KEYS == <<"current_date", "homeworks">>
\* HOMEWORK_KEYS with one field forgotten
HOMEWORK_KEYS_NoLesson == <<"date_updated", "homework_name", "id",
                            "reviewer_comment", "status">>
HOMEWORK_KEYS == <<"date_updated", "homework_name", "id", "lesson_name",
                   "reviewer_comment", "status">>
HOMEWORK_VERDICTS ==
    [approved |-> "Work reviewed: the reviewer liked everything. Hooray!",
     reviewing |-> "Work taken for review by the reviewer.",
     rejected |-> "Work reviewed: the reviewer has remarks."]

(***************************************************************************)
(* Results of a call: the exception raised (NoExc if none) and the value   *)
(* returned.                                                               *)
(***************************************************************************)
Result(exc, value) == [exc |-> exc, value |-> value]

RECURSIVE join(_, _)
\* sep.join(names)
join(sep, names) ==
    IF names = <<>> THEN <<>>
    ELSE IF Len(names) = 1 THEN <<names[1]>>
    ELSE <<names[1], sep>> \o join(sep, Tail(names))

\* not value
Falsy(value) ==
    \/ value.type = "NoneType"
    \/ value.type = "str" /\ value.val = ""

\* check_tokens that stops at the first missing variable
check_tokens_FirstOnly(tokens) ==
    LET missing_tokens == SelectSeq(TOKEN_NAMES, LAMBDA key : Falsy(tokens[key]))
    IN  IF missing_tokens # <<>>
        THEN Result(Exc("MissingTokenError",
                        <<"Missing environment variables: ">>
                            \o join(", ", <<Head(missing_tokens)>>)),
                    None)
        ELSE Result(NoExc, PyBool(TRUE))

(***************************************************************************)
(* check_tokens                                                            *)
(***************************************************************************)
check_tokens(tokens) ==
    LET missing_tokens == SelectSeq(TOKEN_NAMES, LAMBDA key : Falsy(tokens[key]))
    IN  IF missing_tokens # <<>>
        THEN Result(Exc("MissingTokenError",
                        <<"Missing environment variables: ">>
                            \o join(", ", missing_tokens)),
                    None)
        ELSE Result(NoExc, PyBool(TRUE))

\* send_message that logs the failure and re-raises it as it is
send_message_Reraise(sent, message) ==
    IF sent = NoExc
    THEN NoExc
    ELSE sent

(***************************************************************************)
(* send_message: sent is what bot.send_message raised (NoExc if nothing).  *)
(***************************************************************************)
send_message(sent, message) ==
    IF sent = NoExc
    THEN NoExc
    ELSE Exc("TelegramError", <<"Error sending message: ">> \o str(sent))

(***************************************************************************)
(* get_api_answer: transport is what requests.get did: the exception it    *)
(* raised, or the status code and the body of the response it returned.    *)
(* A body of type "invalid" is one that response.json() cannot decode.     *)
(***************************************************************************)
Transport(raised, status_code, body) ==
    [raised |-> raised, status_code |-> status_code, body |-> body]

get_api_answer(transport) ==
    IF transport.raised # NoExc
    THEN Result(Exc("ConnectionError",
                    <<"Endpoint unavailable. Error: ">> \o str(transport.raised)),
                None)
    ELSE IF transport.status_code # HTTP_OK
    THEN Result(Exc("APIResponseError",
                    <<"Endpoint unavailable. API response code: ",
                      ToString(transport.status_code)>>),
                None)
    ELSE IF transport.body.type = "invalid"
    THEN Result(Exc("ValueError",
                    <<"Error converting the API response: ">>
                        \o <<"Expecting value">>),
                None)
    ELSE Result(NoExc, transport.body)

(***************************************************************************)
(* check_response                                                          *)
(***************************************************************************)
check_response(response) ==
    IF ~isinstance(response, "dict")
    THEN Exc("TypeError", <<"API response is not a dict">>)
    ELSE
    LET absent == SelectSeq(RESPONSE_KEYS, LAMBDA key : ~HasKey(response, key))
    IN  IF absent # <<>>
        THEN Exc("KeyError", <<"API response has no key ", Head(absent)>>)
        ELSE IF ~isinstance(response.get["current_date"], "int")
        THEN Exc("TypeError", <<"Value of key \"current_date\" is not of type int">>)
        ELSE IF ~isinstance(response.get["homeworks"], "list")
        THEN Exc("TypeError", <<"Value of key \"homeworks\" is not of type list">>)
        ELSE IF response.get["homeworks"].items = <<>>
        THEN Exc("IndexError", <<"list index out of range">>)
        ELSE IF ~isinstance(response.get["homeworks"].items[1], "dict")
        THEN Exc("TypeError", <<"Homework is not represented by a dict">>)
        ELSE
        LET unknown == SelectSeq(response.get["homeworks"].items[1].keys,
                                 LAMBDA key : key \notin Range(HOMEWORK_KEYS))
        IN  IF unknown # <<>>
            THEN Exc("KeyError", <<"Homework object has no key ", Head(unknown)>>)
            ELSE NoExc

(***************************************************************************)
(* parse_status                                                            *)
(***************************************************************************)
\* homework[key]: the value, or KeyError(key)
getitem(homework, key) ==
    IF HasKey(homework, key)
    THEN Result(NoExc, homework.get[key])
    ELSE Result(Exc("KeyError", <<key>>), None)

\* status in HOMEWORK_VERDICTS: lists and dicts are unhashable
InVerdicts(status) ==
    status.type = "str" /\ status.val \in DOMAIN HOMEWORK_VERDICTS

\* parse_status that falls back to the raw status when the table has no
\* verdict for it (HOMEWORK_VERDICTS.get(status, status))
parse_status_Lenient(homework) ==
    IF ~HasKey(homework, "homework_name")
    THEN Result(Exc("KeyError", <<"API response has no key \"homework_name\"">>), None)
    ELSE IF getitem(homework, "status").exc # NoExc
    THEN Result(getitem(homework, "status").exc, None)
    ELSE Result(NoExc,
                <<"Changed review status for \"">> \o fstr(homework.get["homework_name"])
                    \o <<"\". ">>
                    \o (IF InVerdicts(homework.get["status"])
                        THEN <<HOMEWORK_VERDICTS[homework.get["status"].val]>>
                        ELSE fstr(homework.get["status"])))

parse_status(homework) ==
    IF ~HasKey(homework, "homework_name")
    THEN Result(Exc("KeyError", <<"API response has no key \"homework_name\"">>), None)
    ELSE IF getitem(homework, "status").exc # NoExc
    THEN Result(getitem(homework, "status").exc, None)
    ELSE
    LET homework_name == homework.get["homework_name"]
        status == homework.get["status"]
    IN  IF status.type \in {"list", "dict"}
        THEN Result(Exc("TypeError", <<"unhashable type: '", status.type, "'">>), None)
        ELSE IF ~InVerdicts(status)
        THEN Result(Exc("ValueError",
                        <<"Value of key \"status\" does not match expectations">>),
                    None)
        ELSE Result(NoExc,
                    <<"Changed review status for \"">> \o fstr(homework_name)
                        \o <<"\". ", HOMEWORK_VERDICTS[status.val]>>)

(***************************************************************************)
(* What the collaborators can do in the model.                             *)
(***************************************************************************)
\* outcomes of bot.send_message: it returns, or raises
SendOutcomes ==
    { NoExc,
      Exc("ApiTelegramException", <<"Forbidden: bot was blocked by the user">>) }

\* the tokens of a complete configuration
GoodTokens == [key \in Range(TOKEN_NAMES) |-> PyStr("secret")]

\* an environment value: unset, set to the empty string, or set
TokenValues == { None, PyStr(""), PyStr("secret") }

\* an element of response['homeworks'] with the fields that main() reads
Homework(name, status, date) ==
    PyDict(<<"date_updated", "homework_name", "status">>,
           [key \in {"date_updated", "homework_name", "status"} |->
              CASE key = "date_updated" -> PyStr(date)
                [] key = "homework_name" -> PyStr(name)
                [] OTHER -> PyStr(status)])

\* a response {'current_date': ..., 'homeworks': [...]}
ApiResponse(homeworks) ==
    PyDict(RESPONSE_KEYS,
           [key \in Range(RESPONSE_KEYS) |->
              IF key = "current_date" THEN PyInt(1700000000) ELSE PyList(homeworks)])

Dates == { "2024-01-01T10:00:00Z", "2024-01-02T10:00:00Z" }

\* what requests.get can do in one cycle of the loop
MainTransports ==
    { Transport(Exc("Timeout", <<"timed out">>), 0, None),
      Transport(NoExc, 500, None),
      Transport(NoExc, HTTP_OK, [type |-> "invalid"]),
      Transport(NoExc, HTTP_OK, PyList(<<>>)),
      Transport(NoExc, HTTP_OK,
                PyDict(<<"current_date">>, [key \in {"current_date"} |-> PyInt(1700000000)])),
      Transport(NoExc, HTTP_OK, ApiResponse(<<>>)),
      Transport(NoExc, HTTP_OK, ApiResponse(<<Homework("hw.zip", "archived", "2024-01-01T10:00:00Z")>>)),
      Transport(NoExc, HTTP_OK,
                ApiResponse(<<DictOf(<<"homework_name", "status", "date_updated", "mark">>,
                                     [homework_name |-> PyStr("hw.zip"),
                                      status |-> PyStr("approved"),
                                      date_updated |-> PyStr("2024-01-01T10:00:00Z"),
                                      mark |-> PyInt(5)])>>)),
      Transport(NoExc, HTTP_OK,
                ApiResponse(<<PyDict(<<"date_updated", "status">>,
                                     [key \in {"date_updated", "status"} |->
                                        IF key = "status" THEN PyStr("approved")
                                        ELSE PyStr("2024-01-01T10:00:00Z")])>>)) }
    \cup { Transport(NoExc, HTTP_OK, ApiResponse(<<Homework("hw.zip", status, date)>>)) :
             status \in {"approved", "rejected"}, date \in Dates }

(***************************************************************************)
(* main(): the body of the try statement of one cycle.  The result is the  *)
(* exception it raised and the locals it leaves; item is the message       *)
(* handed to send_message (<<>> if send_message was not called).           *)
(* previous_date_updated is never assigned by the loop (line 220 assigns   *)
(* the local date_updated).                                                *)
(***************************************************************************)
TryResult(exc, status, date, item) ==
    [exc |-> exc, previous_status |-> status, previous_date_updated |-> date,
     item |-> item]

\* the try body with the dedup keyed on date_updated instead of the status
main_try_DateKeyed(prev_status, prev_date, transport, sent) ==
    LET answer == get_api_answer(transport)
        response == answer.value
        homework == response.get["homeworks"].items[1]
        homework_status == getitem(homework, "status")
        date_updated == getitem(homework, "date_updated")
        message == parse_status(homework)
    IN  IF answer.exc # NoExc
        THEN TryResult(answer.exc, prev_status, prev_date, <<>>)
        ELSE IF check_response(response) # NoExc
        THEN TryResult(check_response(response), prev_status, prev_date, <<>>)
        ELSE IF homework_status.exc # NoExc
        THEN TryResult(homework_status.exc, prev_status, prev_date, <<>>)
        ELSE IF date_updated.exc # NoExc
        THEN TryResult(date_updated.exc, prev_status, prev_date, <<>>)
        ELSE IF message.exc # NoExc
        THEN TryResult(message.exc, prev_status, prev_date, <<>>)
        ELSE IF date_updated.value # prev_date
        THEN IF send_message(sent, message.value) # NoExc
             THEN TryResult(send_message(sent, message.value),
                            prev_status, prev_date, message.value)
             ELSE TryResult(NoExc, homework_status.value, date_updated.value,
                            message.value)
        ELSE TryResult(NoExc, prev_status, prev_date, <<>>)

\* the try body that records the status before it sends the message
main_try_RecordFirst(prev_status, prev_date, transport, sent) ==
    LET answer == get_api_answer(transport)
        response == answer.value
        homework == response.get["homeworks"].items[1]
        homework_status == getitem(homework, "status")
        date_updated == getitem(homework, "date_updated")
        message == parse_status(homework)
    IN  IF answer.exc # NoExc
        THEN TryResult(answer.exc, prev_status, prev_date, <<>>)
        ELSE IF check_response(response) # NoExc
        THEN TryResult(check_response(response), prev_status, prev_date, <<>>)
        ELSE IF homework_status.exc # NoExc
        THEN TryResult(homework_status.exc, prev_status, prev_date, <<>>)
        ELSE IF date_updated.exc # NoExc
        THEN TryResult(date_updated.exc, prev_status, prev_date, <<>>)
        ELSE IF message.exc # NoExc
        THEN TryResult(message.exc, prev_status, prev_date, <<>>)
        ELSE IF homework_status.value # prev_status
        THEN TryResult(send_message(sent, message.value),
                       homework_status.value, prev_date, message.value)
        ELSE TryResult(NoExc, prev_status, prev_date, <<>>)

main_try(prev_status, prev_date, transport, sent) ==
    LET answer == get_api_answer(transport)
        response == answer.value
        homework == response.get["homeworks"].items[1]
        homework_status == getitem(homework, "status")
        date_updated == getitem(homework, "date_updated")
        message == parse_status(homework)
    IN  IF answer.exc # NoExc
        THEN TryResult(answer.exc, prev_status, prev_date, <<>>)
        ELSE IF check_response(response) # NoExc
        THEN TryResult(check_response(response), prev_status, prev_date, <<>>)
        ELSE IF homework_status.exc # NoExc
        THEN TryResult(homework_status.exc, prev_status, prev_date, <<>>)
        ELSE IF date_updated.exc # NoExc
        THEN TryResult(date_updated.exc, prev_status, prev_date, <<>>)
        ELSE IF message.exc # NoExc
        THEN TryResult(message.exc, prev_status, prev_date, <<>>)
        ELSE IF homework_status.value # prev_status
        THEN IF send_message(sent, message.value) # NoExc
             THEN TryResult(send_message(sent, message.value),
                            prev_status, prev_date, message.value)
             ELSE TryResult(NoExc, homework_status.value, prev_date, message.value)
        ELSE TryResult(NoExc, prev_status, prev_date, <<>>)

(***************************************************************************)
(* main(): the except clause.  The message it sends, and the exception     *)
(* that leaves it (raised by send_message, not caught by anything).        *)
(***************************************************************************)
main_except(error, sent) ==
    LET message == <<"Program failure: ">> \o str(error)
    IN  [message |-> message, exc |-> send_message(sent, message)]

(***************************************************************************)
(* The program.                                                            *)
(***************************************************************************)
NotCalled == [type |-> "NotCalled"]

\* the moment at which the module is imported
StartTimes == { 1700000000 }

\* lines 31-33: PAYLOAD for the import time now, which is now - DAYS days
payload(now) == [from_date |-> now - DAYS * 24 * 60 * 60]

Init ==
    /\ TOKENS \in [Range(TOKEN_NAMES) -> TokenValues]
    /\ clock \in StartTimes
    /\ PAYLOAD = payload(clock)
    /\ pc = "start"
    /\ bot = FALSE
    /\ previous_status = None
    /\ previous_date_updated = None
    /\ pending = NoExc
    /\ fetches = 0
    /\ sleeps = 0
    /\ token_checks = 0
    /\ log = <<>>
    /\ arg = None
    /\ ret = NotCalled

\* main() that constructs the bot before it checks the tokens
MainStart_BotFirst ==
    /\ pc = "start"
    /\ token_checks' = token_checks + 1
    /\ bot' = TRUE
    /\ IF check_tokens(TOKENS).exc # NoExc
       THEN /\ pc' = "raised"
            /\ pending' = check_tokens(TOKENS).exc
       ELSE /\ pc' = "try"
            /\ UNCHANGED pending
    /\ previous_status' = None
    /\ previous_date_updated' = None
    /\ UNCHANGED <<TOKENS, clock, PAYLOAD, fetches, sleeps, log, arg, ret>>

\* main(), lines 202-206: check_tokens, TeleBot, the two locals
MainStart ==
    /\ pc = "start"
    /\ token_checks' = token_checks + 1
    /\ IF check_tokens(TOKENS).exc # NoExc
       THEN /\ pc' = "raised"
            /\ pending' = check_tokens(TOKENS).exc
            /\ UNCHANGED bot
       ELSE /\ pc' = "try"
            /\ bot' = TRUE
            /\ UNCHANGED pending
    /\ previous_status' = None
    /\ previous_date_updated' = None
    /\ UNCHANGED <<TOKENS, clock, PAYLOAD, fetches, sleeps, log, arg, ret>>

\* one pass through the try and except clauses, lines 209-224
MainCycle ==
    /\ pc = "try"
    /\ Len(log) < MaxCycles
    /\ \E transport \in MainTransports, sent1 \in SendOutcomes, sent2 \in SendOutcomes :
         LET body == main_try(previous_status, previous_date_updated, transport, sent1)
             handler == main_except(body.exc, sent2)
         IN  /\ previous_status' = body.previous_status
             /\ previous_date_updated' = body.previous_date_updated
             /\ pending' = IF body.exc # NoExc THEN handler.exc ELSE NoExc
             /\ log' = Append(log,
                  [params |-> PAYLOAD,
                   transport |-> transport,
                   error |-> body.exc,
                   item |-> body.item,
                   item_sent |-> body.item # <<>> /\ sent1 = NoExc,
                   alert |-> IF body.exc # NoExc THEN handler.message ELSE <<>>,
                   alert_sent |-> body.exc # NoExc /\ sent2 = NoExc,
                   slept |-> 0])
    /\ fetches' = fetches + 1
    /\ pc' = "finally"
    /\ UNCHANGED <<TOKENS, clock, PAYLOAD, bot, sleeps, token_checks, arg, ret>>

\* a loop whose sleep follows the try statement instead of being its finally
\* clause: an exception that leaves the except clause skips the sleep
MainFinally_SleepAfterTry ==
    /\ pc = "finally"
    /\ sleeps' = IF pending # NoExc THEN sleeps ELSE sleeps + 1
    /\ log' = IF pending # NoExc THEN log
              ELSE [log EXCEPT ![Len(log)].slept = @ + RETRY_PERIOD]
    /\ clock' = IF pending # NoExc THEN clock ELSE clock + RETRY_PERIOD
    /\ pc' = IF pending # NoExc THEN "raised" ELSE "try"
    /\ UNCHANGED <<TOKENS, PAYLOAD, bot, previous_status, previous_date_updated, pending,
                   fetches, token_checks, arg, ret>>

\* a loop that rebuilds the request parameters from the current time before
\* every iteration (a sliding window)
MainFinally_SlidingWindow ==
    /\ pc = "finally"
    /\ sleeps' = sleeps + 1
    /\ log' = [log EXCEPT ![Len(log)].slept = @ + RETRY_PERIOD]
    /\ clock' = clock + RETRY_PERIOD
    /\ PAYLOAD' = payload(clock')
    /\ pc' = IF pending # NoExc THEN "raised" ELSE "try"
    /\ UNCHANGED <<TOKENS, bot, previous_status, previous_date_updated, pending,
                   fetches, token_checks, arg, ret>>

\* the finally clause, line 227, then the next iteration or the propagation
\* of the exception that left the except clause
MainFinally ==
    /\ pc = "finally"
    /\ sleeps' = sleeps + 1
    /\ log' = [log EXCEPT ![Len(log)].slept = @ + RETRY_PERIOD]
    /\ clock' = clock + RETRY_PERIOD
    /\ pc' = IF pending # NoExc THEN "raised" ELSE "try"
    /\ UNCHANGED <<TOKENS, PAYLOAD, bot, previous_status, previous_date_updated, pending,
                   fetches, token_checks, arg, ret>>

Next == MainStart \/ MainCycle \/ MainFinally

Spec == Init /\ [][Next]_vars

TypeOK ==
    /\ pc \in {"start", "try", "finally", "raised"}
    /\ Len(log) <= MaxCycles

(***************************************************************************)
(* check_response on its own: every response of a bounded set of shapes is *)
(* handed to check_response once.                                          *)
(***************************************************************************)
\* shapes of response['homeworks'][0]
ElementShapes ==
    { PyStr("hw.zip"),
      PyDict(<<>>, <<>>),
      Homework("hw.zip", "approved", "2024-01-01T10:00:00Z"),
      DictOf(<<"id", "status", "homework_name", "reviewer_comment", "date_updated",
               "lesson_name">>,
             [id |-> PyInt(124), status |-> PyStr("rejected"),
              homework_name |-> PyStr("hw.zip"), reviewer_comment |-> PyStr("fix it"),
              date_updated |-> PyStr("2024-01-01T10:00:00Z"),
              lesson_name |-> PyStr("Final project")]),
      DictOf(<<"id", "status", "mark">>,
             [id |-> PyInt(124), status |-> PyStr("rejected"), mark |-> PyInt(5)]),
      DictOf(<<"status", "mark">>, [status |-> PyStr("approved"), mark |-> PyInt(5)]),
      DictOf(<<"mark", "status", "grade">>,
             [status |-> PyStr("approved"), mark |-> PyInt(5), grade |-> PyInt(4)]) }

\* values of response['homeworks']
HomeworksShapes ==
    { None, PyDict(<<>>, <<>>), PyList(<<>>),
      PyList(<<Homework("hw.zip", "approved", "2024-01-01T10:00:00Z"), PyStr("hw.zip")>>) }
    \cup { PyList(<<element>>) : element \in ElementShapes }

\* values of response['current_date']
CurrentDateShapes == { PyInt(1700000000), PyBool(TRUE), PyStr("1700000000"), None }

\* the key sequences of a response
ResponseKeyShapes ==
    { <<>>, <<"code">>,
      <<"current_date">>, <<"code", "current_date">>,
      <<"homeworks">>, <<"homeworks", "code">>,
      <<"current_date", "homeworks">>, <<"homeworks", "current_date">>,
      <<"homeworks", "code", "current_date">> }

ResponseShapes ==
    { None, PyList(<<>>), PyStr("Unauthorized"), PyInt(0) }
    \cup { DictOf(ks, [current_date |-> current_date, homeworks |-> homeworks,
                       code |-> PyStr("not_authenticated")]) :
             ks \in ResponseKeyShapes,
             current_date \in CurrentDateShapes,
             homeworks \in HomeworksShapes }

InitCheckResponse ==
    /\ TOKENS = GoodTokens
    /\ clock \in StartTimes
    /\ PAYLOAD = payload(clock)
    /\ pc = "start"
    /\ bot = FALSE
    /\ previous_status = None
    /\ previous_date_updated = None
    /\ pending = NoExc
    /\ fetches = 0
    /\ sleeps = 0
    /\ token_checks = 0
    /\ log = <<>>
    /\ arg \in ResponseShapes
    /\ ret = NotCalled

CallCheckResponse ==
    /\ ret = NotCalled
    /\ ret' = check_response(arg)
    /\ UNCHANGED <<arg, mainVars>>

NextCheckResponse == CallCheckResponse

SpecCheckResponse == InitCheckResponse /\ [][NextCheckResponse]_vars

(***************************************************************************)
(* What a cycle of the log observed, read off the transport alone.         *)
(***************************************************************************)
\* the fetch returned a decodable body with status 200
Fetched(c) ==
    /\ c.transport.raised = NoExc
    /\ c.transport.status_code = HTTP_OK
    /\ c.transport.body.type # "invalid"

\* the body is a mapping with an integer currentDate and a sequence items
ValidEnvelope(body) ==
    /\ body.type = "dict"
    /\ \A key \in Range(RESPONSE_KEYS) : key \in DOMAIN body.get
    /\ body.get["current_date"].type \in {"int", "bool"}
    /\ body.get["homeworks"].type = "list"

\* the cycle observed a valid response with an empty items sequence
ObservedEmpty(c) ==
    /\ Fetched(c)
    /\ ValidEnvelope(c.transport.body)
    /\ c.transport.body.get["homeworks"].items = <<>>

\* the cycle observed a valid response whose element 0 has the three fields
ObservedItem(c) ==
    /\ Fetched(c)
    /\ ValidEnvelope(c.transport.body)
    /\ c.transport.body.get["homeworks"].items # <<>>
    /\ c.transport.body.get["homeworks"].items[1].type = "dict"
    /\ DOMAIN c.transport.body.get["homeworks"].items[1].get
         = {"date_updated", "homework_name", "status"}

Element0(c) == c.transport.body.get["homeworks"].items[1].get

\* the cycle ran its try body to the end
Succeeded(c) == c.error = NoExc

\* the failure message the except clause formats for the cycle
FailureMessage(c) == <<"Program failure: ">> \o str(c.error)

ItemCount(c) == IF c.item # <<>> THEN 1 ELSE 0

(***************************************************************************)
(* Claims about the polling loop.                                          *)
(***************************************************************************)

\* C1: two consecutive successful cycles whose element 0 carries the same
\* dateUpdated dispatch exactly one item notification (when the item was not
\* seen before them), and the second of them dispatches none, whatever the
\* two status values are.
C1_Idempotence ==
    \A i \in 1..(Len(log) - 1) :
        ( /\ Succeeded(log[i]) /\ Succeeded(log[i + 1])
          /\ ObservedItem(log[i]) /\ ObservedItem(log[i + 1])
          /\ Element0(log[i]).date_updated = Element0(log[i + 1]).date_updated )
        => /\ ItemCount(log[i + 1]) = 0
           /\ i = 1 => ItemCount(log[i]) + ItemCount(log[i + 1]) = 1

\* C2: two consecutive successful cycles whose element 0 has different
\* dateUpdated values each dispatch an item notification (the first of them
\* when it is the first cycle of the run), carrying the verdict text of the
\* status of its own cycle, also when the two statuses are equal.
C2_ChangeDetection ==
    \A i \in 1..(Len(log) - 1) :
        ( /\ Succeeded(log[i]) /\ Succeeded(log[i + 1])
          /\ ObservedItem(log[i]) /\ ObservedItem(log[i + 1])
          /\ Element0(log[i]).date_updated # Element0(log[i + 1]).date_updated )
        => /\ log[i + 1].item # <<>>
           /\ log[i + 1].item[Len(log[i + 1].item)]
                = HOMEWORK_VERDICTS[Element0(log[i + 1]).status.val]
           /\ i = 1 => /\ log[i].item # <<>>
                       /\ log[i].item[Len(log[i].item)]
                            = HOMEWORK_VERDICTS[Element0(log[i]).status.val]

\* C3: a failing cycle that follows a failing cycle with the identical
\* formatted failure message dispatches no error notification; a failing
\* cycle that is the first cycle, or follows a failing cycle with a different
\* message, dispatches one.
C3_ErrorDedup ==
    \A i \in 1..Len(log) :
        ~Succeeded(log[i]) =>
            IF i > 1 /\ ~Succeeded(log[i - 1])
                     /\ FailureMessage(log[i - 1]) = FailureMessage(log[i])
            THEN log[i].alert = <<>>
            ELSE (i = 1 \/ ~Succeeded(log[i - 1])) => log[i].alert = FailureMessage(log[i])

\* C4: after a cycle that notified an item and a cycle that observed an empty
\* items sequence, a cycle that observes the same item again (same
\* dateUpdated, same status) dispatches the item notification again.
C4_ResetOnEmpty ==
    \A i \in 1..(Len(log) - 2) :
        ( /\ ObservedItem(log[i]) /\ log[i].item_sent
          /\ ObservedEmpty(log[i + 1])
          /\ ObservedItem(log[i + 2])
          /\ Element0(log[i + 2]).date_updated = Element0(log[i]).date_updated
          /\ Element0(log[i + 2]).status = Element0(log[i]).status )
        => log[i + 2].item # <<>>

\* C5: once check_tokens has succeeded, main never terminates: it is left by
\* an exception only when a secret is missing.
C5_OnlyCredentialFailureTerminates ==
    pc = "raised" => \E key \in Range(TOKEN_NAMES) : Falsy(TOKENS[key])

\* C6: every cycle, whatever its outcome, ends with exactly one sleep of
\* RETRY_PERIOD seconds: there is one sleep per fetch, and the only cycle
\* that has not slept yet is the one whose finally clause is about to run.
C6_UnconditionalSleep ==
    /\ fetches = Len(log)
    /\ sleeps = IF pc = "finally" THEN fetches - 1 ELSE fetches
    /\ \A i \in 1..Len(log) :
         log[i].slept = IF i = Len(log) /\ pc = "finally" THEN 0 ELSE RETRY_PERIOD

\* C6 witness: a cycle failed, the dispatch of its error notification failed
\* too, and the cycle has slept all the same.
C6_Witness ==
    /\ pc = "raised"
    /\ log # <<>>
    /\ ~Succeeded(log[Len(log)])
    /\ ~log[Len(log)].alert_sent
    /\ log[Len(log)].slept = RETRY_PERIOD

\* C7: check_tokens runs once; when a secret is missing or empty, main raises
\* MissingTokenError before the bot is created, and no fetch, no dispatch and
\* no sleep ever happens.
C7_CredentialFailureIsFatal ==
    /\ token_checks = IF pc = "start" THEN 0 ELSE 1
    /\ (\E key \in Range(TOKEN_NAMES) : Falsy(TOKENS[key]))
       => /\ pc \in {"start", "raised"}
          /\ pc = "raised" => pending.type = "MissingTokenError"
          /\ bot = FALSE
          /\ fetches = 0
          /\ sleeps = 0
          /\ log = <<>>

\* C7 witness: main has raised with an empty TELEGRAM_TOKEN.
C7_Witness ==
    /\ pc = "raised"
    /\ TOKENS["TELEGRAM_TOKEN"] = PyStr("")
    /\ token_checks = 1

\* C8: check_tokens succeeds iff no secret is missing or empty, and otherwise
\* raises MissingTokenError whose message names exactly the missing secrets.
C8_AllMissingNamesReported ==
    (token_checks = 1 /\ log = <<>> /\ pc # "finally") =>
        LET missing == { key \in Range(TOKEN_NAMES) :
                            TOKENS[key] = None \/ TOKENS[key] = PyStr("") }
        IN  IF missing = {}
            THEN pc = "try" /\ pending = NoExc
            ELSE /\ pc = "raised"
                 /\ pending.type = "MissingTokenError"
                 /\ Range(pending.text) \cap Range(TOKEN_NAMES) = missing

\* C8 witness: two secrets are missing (one unset, one empty) and both are
\* named.
C8_Witness ==
    /\ pc = "raised"
    /\ TOKENS["PRACTICUM_TOKEN"] = PyStr("secret")
    /\ TOKENS["TELEGRAM_TOKEN"] = None
    /\ TOKENS["TELEGRAM_CHAT_ID"] = PyStr("")
    /\ {"TELEGRAM_TOKEN", "TELEGRAM_CHAT_ID"} \subseteq Range(pending.text)

\* C9: a cycle that observes a valid response with an empty items sequence
\* is not a failing cycle: check_response accepts the response, no exception
\* is raised and neither an item nor an error notification is dispatched.
C9_EmptyItemsIsNotAFailure ==
    \A i \in 1..Len(log) :
        ObservedEmpty(log[i]) =>
            /\ check_response(log[i].transport.body) = NoExc
            /\ log[i].error = NoExc
            /\ log[i].item = <<>>
            /\ log[i].alert = <<>>

(***************************************************************************)
(* Claims about check_response.                                            *)
(***************************************************************************)

\* C10: for a response mapping that lacks current_date or homeworks,
\* check_response raises KeyError naming the first key, in the order
\* current_date, homeworks, that the mapping lacks.
C10_MissingKeyNamed ==
    ( /\ ret # NotCalled
      /\ arg.type = "dict"
      /\ \E key \in {"current_date", "homeworks"} : key \notin DOMAIN arg.get )
    => /\ ret.type = "KeyError"
       /\ Len(ret.text) = 2
       /\ ret.text[2] = IF "current_date" \notin DOMAIN arg.get
                        THEN "current_date" ELSE "homeworks"

\* C10 witness: a response with current_date and another key but without
\* homeworks was rejected with KeyError.
C10_Witness ==
    /\ ret # NotCalled
    /\ arg.type = "dict"
    /\ DOMAIN arg.get = {"code", "current_date"}
    /\ ret.type = "KeyError"


\* C11: for a response that passes the checks on the envelope and whose
\* element 0 is a mapping, check_response raises KeyError naming a key of
\* element 0 that is outside the six TrackedItem fields when there is such a
\* key, and accepts the response when every key of element 0 is one of the
\* six fields (any subset of them).
C11_UnknownKeyRejected ==
    ( /\ ret # NotCalled
      /\ ValidEnvelope(arg)
      /\ arg.get["homeworks"].items # <<>>
      /\ arg.get["homeworks"].items[1].type = "dict" )
    => LET allowed == {"date_updated", "homework_name", "id", "lesson_name",
                       "reviewer_comment", "status"}
           present == DOMAIN arg.get["homeworks"].items[1].get
       IN  IF present \subseteq allowed
           THEN ret = NoExc
           ELSE /\ ret.type = "KeyError"
                /\ Len(ret.text) = 2
                /\ ret.text[2] \in present \ allowed

\* C11 witness: an element 0 with all six fields was accepted.
C11_Witness ==
    /\ ret = NoExc
    /\ ValidEnvelope(arg)
    /\ arg.get["homeworks"].items # <<>>
    /\ arg.get["homeworks"].items[1].type = "dict"
    /\ Cardinality(DOMAIN arg.get["homeworks"].items[1].get) = 6

\* C11 second case reached: an element 0 with the keys id, status and mark
\* was rejected for the key mark.
C11_WitnessRejected ==
    /\ ret.type = "KeyError"
    /\ ValidEnvelope(arg)
    /\ arg.get["homeworks"].items # <<>>
    /\ arg.get["homeworks"].items[1].type = "dict"
    /\ DOMAIN arg.get["homeworks"].items[1].get = {"id", "status", "mark"}
    /\ ret.text[2] = "mark"


(***************************************************************************)
(* parse_status on its own: every homework of a bounded set of shapes is   *)
(* handed to parse_status once.                                            *)
(***************************************************************************)
\* values of homework['status'] that a decoded JSON body can hold
StatusShapes ==
    { PyStr("approved"), PyStr("reviewing"), PyStr("rejected"),
      PyStr("archived"), PyStr("Approved"), PyStr(""),
      None, PyInt(1), PyBool(TRUE),
      PyList(<<PyStr("approved")>>), PyDict(<<>>, <<>>) }

\* the key sequences of a homework
HomeworkKeyShapes ==
    { <<>>, <<"status">>, <<"date_updated", "status">>, <<"homework_name">>,
      <<"homework_name", "status">>,
      <<"status", "homework_name", "date_updated">> }

HomeworkShapes ==
    { DictOf(ks, [homework_name |-> PyStr(name), status |-> status,
                  date_updated |-> PyStr("2024-01-01T10:00:00Z")]) :
        ks \in HomeworkKeyShapes,
        name \in {"hw.zip", "Project X"},
        status \in StatusShapes }

InitParseStatus ==
    /\ TOKENS = GoodTokens
    /\ clock \in StartTimes
    /\ PAYLOAD = payload(clock)
    /\ pc = "start"
    /\ bot = FALSE
    /\ previous_status = None
    /\ previous_date_updated = None
    /\ pending = NoExc
    /\ fetches = 0
    /\ sleeps = 0
    /\ token_checks = 0
    /\ log = <<>>
    /\ arg \in HomeworkShapes
    /\ ret = NotCalled

CallParseStatus ==
    /\ ret = NotCalled
    /\ ret' = parse_status(arg)
    /\ UNCHANGED <<arg, mainVars>>

NextParseStatus == CallParseStatus

SpecParseStatus == InitParseStatus /\ [][NextParseStatus]_vars

\* C12: for a homework with a homework_name, parse_status returns
\* 'Changed review status for "NAME". TEXT' (TEXT from HOMEWORK_VERDICTS) iff the status is one of
\* approved, reviewing, rejected, and for any other status raises the
\* unknown-status error (ValueError) and returns no message; for a homework
\* without homework_name it raises the missing-field error (KeyError).
C12_ParseStatus ==
    ret # NotCalled =>
        IF "homework_name" \notin DOMAIN arg.get
        THEN ret.exc.type = "KeyError" /\ ret.value = None
        ELSE "status" \in DOMAIN arg.get =>
             IF arg.get["status"] \in
                  {PyStr("approved"), PyStr("reviewing"), PyStr("rejected")}
             THEN /\ ret.exc = NoExc
                  /\ ret.value = <<"Changed review status for \"",
                                   arg.get["homework_name"].val, "\". ",
                                   HOMEWORK_VERDICTS[arg.get["status"].val]>>
             ELSE /\ ret.exc.type = "ValueError"
                  /\ ret.value = None


(***************************************************************************)
(* send_message on its own: every outcome of bot.send_message, for every   *)
(* message of a bounded set.                                               *)
(***************************************************************************)
\* what bot.send_message can do: return, be rejected by the Bot API, or fail
\* on the network
NotifierOutcomes ==
    { NoExc,
      Exc("ApiTelegramException", <<"Forbidden: bot was blocked by the user">>),
      Exc("ApiTelegramException", <<"Bad Request: chat not found">>),
      Exc("ConnectionError", <<"Max retries exceeded">>),
      Exc("ReadTimeout", <<"Read timed out.">>) }

\* the messages main() hands to send_message
MessageShapes ==
    { parse_status(Homework(name, status, "2024-01-01T10:00:00Z")).value :
        name \in {"hw.zip", "Project X"},
        status \in {"approved", "reviewing", "rejected"} }
    \cup { main_except(error, NoExc).message :
             error \in { get_api_answer(Transport(NoExc, 500, None)).exc,
                         get_api_answer(Transport(NoExc, HTTP_OK, [type |-> "invalid"])).exc,
                         check_response(None),
                         check_response(ApiResponse(<<>>)),
                         getitem(PyDict(<<>>, <<>>), "status").exc } }

InitSendMessage ==
    /\ TOKENS = GoodTokens
    /\ clock \in StartTimes
    /\ PAYLOAD = payload(clock)
    /\ pc = "start"
    /\ bot = FALSE
    /\ previous_status = None
    /\ previous_date_updated = None
    /\ pending = NoExc
    /\ fetches = 0
    /\ sleeps = 0
    /\ token_checks = 0
    /\ log = <<>>
    /\ arg \in [sent : NotifierOutcomes, message : MessageShapes]
    /\ ret = NotCalled

CallSendMessage ==
    /\ ret = NotCalled
    /\ ret' = send_message(arg.sent, arg.message)
    /\ UNCHANGED <<arg, mainVars>>

NextSendMessage == CallSendMessage

SpecSendMessage == InitSendMessage /\ [][NextSendMessage]_vars

\* C13: send_message returns normally when bot.send_message returns, and for
\* every exception that bot.send_message raises it raises TelegramError whose
\* message carries the text of that exception; the exception of the notifier
\* itself never leaves send_message.
C13_SendMessageWraps ==
    ret # NotCalled =>
        IF arg.sent = NoExc
        THEN ret = NoExc
        ELSE /\ ret.type = "TelegramError"
             /\ ret # arg.sent
             /\ \A i \in DOMAIN arg.sent.text :
                  \E j \in DOMAIN ret.text : ret.text[j] = arg.sent.text[i]

\* C13 witness: a network error of the notifier came out as TelegramError.
C13_Witness ==
    /\ ret # NotCalled
    /\ arg.sent.type = "ConnectionError"
    /\ ret.type = "TelegramError"


(***************************************************************************)
(* More claims about the polling loop.                                     *)
(***************************************************************************)

\* C14: a cycle that dispatches an item notification successfully leaves
\* previous_date_updated equal to the date_updated of the item it notified;
\* a cycle in which the notification is suppressed or fails leaves
\* previous_date_updated as it was.
C14_TimestampFollowsNotification ==
    [][ (pc = "try" /\ pc' = "finally") =>
          IF log'[Len(log')].item_sent
          THEN previous_date_updated' = Element0(log'[Len(log')]).date_updated
          ELSE previous_date_updated' = previous_date_updated ]_vars


\* C15: when a cycle failed and its error notification was sent, and one or
\* more successful cycles with a non-empty items list follow, a cycle that
\* then fails with the same failure message dispatches no error notification.
C15_ErrorMessagePersists ==
    \A i \in 1..Len(log) : \A k \in (i + 2)..Len(log) :
        ( /\ ~Succeeded(log[i]) /\ log[i].alert_sent
          /\ \A j \in (i + 1)..(k - 1) : Succeeded(log[j]) /\ ObservedItem(log[j])
          /\ ~Succeeded(log[k])
          /\ FailureMessage(log[k]) = FailureMessage(log[i]) )
        => log[k].alert = <<>>


\* C16: an item notification is handed to the dispatcher only in a cycle
\* whose fetch, decoding, validation and interpretation all succeeded, and it
\* is the message of the item of that cycle; a cycle that fails in one of
\* these steps dispatches no item notification.
C16_NotifyOnlyAfterPipeline ==
    \A i \in 1..Len(log) :
        /\ log[i].item # <<>> =>
             /\ Fetched(log[i])
             /\ ValidEnvelope(log[i].transport.body)
             /\ log[i].transport.body.get["homeworks"].items # <<>>
             /\ log[i].transport.body.get["homeworks"].items[1].type = "dict"
             /\ DOMAIN Element0(log[i]) \subseteq
                  {"date_updated", "homework_name", "id", "lesson_name",
                   "reviewer_comment", "status"}
             /\ "homework_name" \in DOMAIN Element0(log[i])
             /\ Element0(log[i]).status \in
                  {PyStr("approved"), PyStr("reviewing"), PyStr("rejected")}
             /\ log[i].item = <<"Changed review status for \"",
                                Element0(log[i]).homework_name.val, "\". ",
                                HOMEWORK_VERDICTS[Element0(log[i]).status.val]>>
        /\ log[i].error.type \in {"ConnectionError", "APIResponseError", "ValueError",
                                  "TypeError", "KeyError", "IndexError"}
             => log[i].item = <<>>

\* C16 witness: a cycle whose element 0 is complete but carries a foreign key
\* failed in check_response and dispatched no item notification, and an
\* earlier cycle dispatched one.
C16_Witness ==
    /\ Len(log) >= 2
    /\ log[1].item_sent
    /\ log[2].error.type = "KeyError"
    /\ Fetched(log[2])
    /\ ValidEnvelope(log[2].transport.body)
    /\ log[2].transport.body.get["homeworks"].items # <<>>
    /\ "mark" \in DOMAIN Element0(log[2])
    /\ log[2].item = <<>>


\* C17: the from_date handed to the fetcher is the same in every cycle: the
\* time at which the program started minus 30 days.  No cycle, successful or
\* failed, changes it, although the clock moves on.
C17_PayloadFixed ==
    LET started == clock - sleeps * 600
    IN  /\ PAYLOAD = [from_date |-> started - 2592000]
        /\ \A i \in 1..Len(log) : log[i].params = [from_date |-> started - 2592000]

\* C17 witness: a failed and a successful cycle have slept, the clock has
\* moved by two retry periods, and the second fetch used the from_date of the
\* first.
C17_Witness ==
    /\ Len(log) >= 2
    /\ sleeps = 2
    /\ ~Succeeded(log[1])
    /\ Succeeded(log[2])
    /\ log[2].params = log[1].params
    /\ clock - log[2].params.from_date = 2592000 + 1200


(***************************************************************************)
(* The six checks of the validator, in their order, stated on the shape of *)
(* the response.                                                           *)
(***************************************************************************)
\* the number of the first check that the response violates, 0 if none
FirstViolatedCheck(r) ==
    IF r.type # "dict" THEN 1
    ELSE IF ~({"current_date", "homeworks"} \subseteq DOMAIN r.get) THEN 2
    ELSE IF r.get["current_date"].type \notin {"int", "bool"} THEN 3
    ELSE IF r.get["homeworks"].type # "list" THEN 4
    ELSE IF r.get["homeworks"].items = <<>> THEN 0
    ELSE IF r.get["homeworks"].items[1].type # "dict" THEN 5
    ELSE IF ~(DOMAIN r.get["homeworks"].items[1].get \subseteq
                {"date_updated", "homework_name", "id", "lesson_name",
                 "reviewer_comment", "status"}) THEN 6
    ELSE 0

\* the error with which check n is reported
ReportsCheck(error, n) ==
    CASE n = 1 -> error = Exc("TypeError", <<"API response is not a dict">>)
      [] n = 2 -> error.type = "KeyError" /\ error.text[1] = "API response has no key "
      [] n = 3 -> error = Exc("TypeError",
                              <<"Value of key \"current_date\" is not of type int">>)
      [] n = 4 -> error = Exc("TypeError",
                              <<"Value of key \"homeworks\" is not of type list">>)
      [] n = 5 -> error = Exc("TypeError", <<"Homework is not represented by a dict">>)
      [] n = 6 -> error.type = "KeyError" /\ error.text[1] = "Homework object has no key "
      [] OTHER -> error = NoExc

\* C18: check_response reports the first violated check in the order
\* mapping, keys present, current_date integer, homeworks sequence, element 0
\* mapping, keys of element 0 allowed, and accepts the response iff no check
\* is violated.
C18_ChecksInOrder ==
    ret # NotCalled => ReportsCheck(ret, FirstViolatedCheck(arg))


(***************************************************************************)
(* The status-keyed dedup of main().                                       *)
(***************************************************************************)
\* fetch, validation and interpretation of the cycle succeed: the body is a
\* valid response whose element 0 has the three fields and a known status
Interpretable(c) ==
    /\ ObservedItem(c)
    /\ Element0(c).status \in {PyStr("approved"), PyStr("reviewing"), PyStr("rejected")}

RECURSIVE LastNotifiedStatus(_)
\* the status of the last item notification of a log that was delivered,
\* None if there is none
LastNotifiedStatus(cycles) ==
    IF cycles = <<>> THEN None
    ELSE IF cycles[Len(cycles)].item_sent
    THEN Element0(cycles[Len(cycles)]).status
    ELSE LastNotifiedStatus(SubSeq(cycles, 1, Len(cycles) - 1))

\* C19: in a cycle whose fetch, validation and interpretation succeed, an
\* item notification is attempted iff the status of the item differs from the
\* status of the last delivered item notification (None before the first);
\* previous_status is that status; and of two consecutive successful cycles
\* with the same status the second attempts none, whatever the date_updated
\* values are.
C19_StatusKeyedDedup ==
    /\ previous_status = LastNotifiedStatus(log)
    /\ \A i \in 1..Len(log) :
         Interpretable(log[i]) =>
             ( log[i].item # <<>>
               <=> Element0(log[i]).status # LastNotifiedStatus(SubSeq(log, 1, i - 1)) )
    /\ \A i \in 1..(Len(log) - 1) :
         ( /\ Interpretable(log[i]) /\ Succeeded(log[i])
           /\ Interpretable(log[i + 1])
           /\ Element0(log[i + 1]).status = Element0(log[i]).status )
         => log[i + 1].item = <<>>

\* C19 witness: two consecutive cycles with the same status and different
\* date_updated values; the first was notified, the second was not.
C19_Witness ==
    /\ Len(log) >= 2
    /\ Interpretable(log[1]) /\ Interpretable(log[2])
    /\ Element0(log[1]).status = Element0(log[2]).status
    /\ Element0(log[1]).date_updated # Element0(log[2]).date_updated
    /\ log[1].item_sent
    /\ log[2].item = <<>>
    /\ Succeeded(log[2])


\* C20: a cycle in which the dispatch of the item notification fails leaves
\* previous_status and previous_date_updated unchanged, and when the loop
\* continues and the next cycle observes the same item, that cycle attempts
\* the item notification again.
C20_StateAdvancesAfterDispatch ==
    [][ /\ ( /\ pc = "try" /\ pc' = "finally"
             /\ log'[Len(log')].item # <<>>
             /\ ~log'[Len(log')].item_sent )
           => /\ previous_status' = previous_status
              /\ previous_date_updated' = previous_date_updated
        /\ \A i \in 1..(Len(log') - 1) :
             ( /\ log'[i].item # <<>> /\ ~log'[i].item_sent
               /\ Interpretable(log'[i + 1])
               /\ Element0(log'[i + 1]) = Element0(log'[i]) )
             => log'[i + 1].item = log'[i].item ]_vars

\* C20 witness: the dispatch of an item notification failed, the error
\* notification went through, and the next cycle attempted the same item
\* notification again and delivered it.
C20_Witness ==
    /\ Len(log) >= 2
    /\ log[1].item # <<>> /\ ~log[1].item_sent
    /\ log[1].error.type = "TelegramError"
    /\ log[1].alert_sent
    /\ Interpretable(log[2])
    /\ Element0(log[2]) = Element0(log[1])
    /\ log[2].item = log[1].item
    /\ log[2].item_sent
    /\ previous_status = Element0(log[2]).status

====
